---- MODULE Spec2Model ----
(***************************************************************************)
(* Job scheduler (api/workers/task_queue.py), job store                    *)
(* (api/services/job_manager.py), progress tracker                         *)
(* (api/services/progress_tracker.py) and pipeline orchestrator            *)
(* (api/workers/pipeline_worker.py) of the music-transcription service.    *)
(*                                                                         *)
(* Threads: the asyncio event loop runs the route handlers, submit_job,    *)
(* cancel_job, shutdown and every asyncio future callback; the             *)
(* ThreadPoolExecutor's workers run run_pipeline_task.  One step of the    *)
(* model is one loop handler, or one call of a worker that commits to the  *)
(* database or calls a collaborator.                                       *)
(***************************************************************************)
EXTENDS Integers, Sequences, FiniteSets, TLC

\* ------------------------------------------------------------------ bounds
\* job ids under Spec, SpecScenario and SpecPipeline
NumJobIds == 4
ScenarioJobIds == 4
PipelineJobIds == 2
\* chunks of an audio longer than chunk_duration
NumChunks == 2
StoreJobIds == 2
LocalMargin == 20
MaxFrames == 3
MaxEvents == 3
MaxPitchFrames == 5
MaxChunks == 3
MaxChunkLen == 2
MaxOverlap == 3
MaxChunkSamples == 7
MaxSamples == 10
MaxVoiced == 2

\* ------------------------------------------------------- program constants
max_concurrent_jobs == 3
update_job_stage_params == 4
update_stage_call_args == 5

NULL == "NULL"

QUEUED == "queued"
PROCESSING == "processing"
COMPLETED == "completed"
FAILED == "failed"
JobStatus == {QUEUED, PROCESSING, COMPLETED, FAILED}

SEPARATION == "separation"
TRANSCRIPTION == "transcription"
CHORDS == "chords"
ProcessingStage == {SEPARATION, TRANSCRIPTION, CHORDS}

\* str(e) of the exceptions a step of the pipeline can raise
TypeErrorMsg == "update_job_stage() takes 4 positional arguments but 5 were given"
CollaboratorMsgs == {"", "boom"}
JobNotFoundMsg == "404: Job not found"

VARIABLES
    jobs,               \* the jobs table: job id -> row (status "absent": no row)
    submitted,          \* the jobs the caller has dispatched
    active_jobs,        \* TaskQueue._active_jobs
    futs,               \* the live futures run_in_executor returned; reg marks
                        \* the values of TaskQueue._job_futures
    executor_shutdown,  \* ThreadPoolExecutor._shutdown
    shutdown_call,      \* TaskQueue.shutdown(wait=True): "none", "blocked", "returned"
    ret                 \* what the last step returned, raised or logged

vars == <<jobs, submitted, active_jobs, futs, executor_shutdown,
          shutdown_call, ret>>

\* ------------------------------------------------------------- job store
NoRow == [status |-> "absent", stage |-> NULL, progress |-> 0,
          started_at |-> FALSE, completed_at |-> FALSE, error_message |-> NULL,
          stem_paths |-> FALSE, frames_json_path |-> FALSE,
          chords_json_path |-> FALSE, num_frames |-> FALSE, num_chords |-> FALSE]

\* The row of a deleted job: the id is a uuid4 and never comes back.
DeletedRow == [NoRow EXCEPT !.status = "deleted"]

\* JobManager.get_job raises JobNotFoundException when the query finds no row.
get_job_raises(row) == row.status \in {"absent", "deleted"}

\* Job(status=QUEUED, progress=0, ...) as create_job adds it
NewRow == [NoRow EXCEPT !.status = QUEUED]

JobIds == DOMAIN jobs

count_active_jobs(tbl) ==
    Cardinality({j \in DOMAIN tbl : tbl[j].status \in {QUEUED, PROCESSING}})

\* Python truthiness of Optional[str]: None and "" are both false
Truthy(s) == s # NULL /\ s # ""

\* a defect: a terminal status written without completed_at
C13_update_job_status_no_completed_at(row, status, error_message) ==
    LET r1 == [row EXCEPT !.status = status]
        r2 == IF status = PROCESSING /\ ~row.started_at
              THEN [r1 EXCEPT !.started_at = TRUE] ELSE r1
    IN  IF Truthy(error_message) THEN [r2 EXCEPT !.error_message = error_message] ELSE r2

update_job_status(row, status, error_message) ==
    LET r1 == [row EXCEPT !.status = status]
        r2 == IF status = PROCESSING /\ ~row.started_at
              THEN [r1 EXCEPT !.started_at = TRUE] ELSE r1
        r3 == IF status \in {COMPLETED, FAILED}
              THEN [r2 EXCEPT !.completed_at = TRUE,
                              !.progress = IF status = COMPLETED THEN 100 ELSE row.progress]
              ELSE r2
    IN  IF Truthy(error_message) THEN [r3 EXCEPT !.error_message = error_message] ELSE r3

update_job_stage(row, stage, progress) ==
    [row EXCEPT !.stage = stage, !.progress = progress]

\* ------------------------------------------------------ progress tracker
stage_weights(stage) ==
    CASE stage = SEPARATION -> <<0, 33>>
      [] stage = TRANSCRIPTION -> <<33, 66>>
      [] stage = CHORDS -> <<66, 100>>

\* a defect: int() that rounds down
C15_IntTrunc_floor(n, d) == n \div d

\* int(x) for the quotient n/d, d > 0: truncation towards zero
IntTrunc(n, d) == IF n >= 0 THEN n \div d ELSE -((-n) \div d)

Min(a, b) == IF a <= b THEN a ELSE b
Max(a, b) == IF a >= b THEN a ELSE b

overall_progress(stage, stage_progress) ==
    LET start == stage_weights(stage)[1]
        end == stage_weights(stage)[2]
    IN  Min(Max(start + IntTrunc((end - start) * stage_progress, 100), 0), 100)

\* A call binds when it passes as many positional arguments as the function
\* has parameters (update_job_stage has no defaults, *args or **kwargs).
CallBinds(args, params) == args = params

\* update_stage: the row after the call and the exception it raised (NULL: none)
update_stage(row, stage, stage_progress) ==
    IF CallBinds(update_stage_call_args, update_job_stage_params)
    THEN [row |-> update_job_stage(row, stage, overall_progress(stage, stage_progress)),
          exc |-> NULL]
    ELSE [row |-> row, exc |-> TypeErrorMsg]

\* ------------------------------------------------- pipeline orchestrator
\* The calls of PipelineWorker.run in program order.  k: kind of call,
\* a: stage, status or collaborator, n: stage-local progress.
Op(k, a, n) == [k |-> k, a |-> a, n |-> n]
St(stage, n) == Op("stage", stage, n)
Call(name) == Op("call", name, 0)

\* chunk_progress = int(20 + (chunk_num / total_chunks) * 70)
chunk_progress(chunk_num, total_chunks) == 20 + IntTrunc(chunk_num * 70, total_chunks)

RECURSIVE ChunkOps(_)
ChunkOps(c) ==
    IF c > NumChunks THEN <<>>
    ELSE <<St(SEPARATION, chunk_progress(c, NumChunks)), Call("process_chunk")>>
         \o ChunkOps(c + 1)

\* AppleSiliconSeparator.separate, seen through progress_callback
SeparateOps(chunked) ==
    <<Call("audio_path.exists"), St(SEPARATION, 0), Call("load_model"), St(SEPARATION, 10), Op("load", "torchaudio.load", 0)>>
    \o (IF chunked
        THEN ChunkOps(1) \o <<St(SEPARATION, 95), Call("merge_chunks"), St(SEPARATION, 100)>>
        ELSE <<St(SEPARATION, 20), Call("process_chunk"), St(SEPARATION, 100)>>)

RunSeparationOps(chunked) ==
    <<Op("status", PROCESSING, 0), St(SEPARATION, 0)>>
    \o SeparateOps(chunked)
    \o <<St(SEPARATION, 70), Call("save_stems_as_mp3"),
         St(SEPARATION, 90), Call("copy_original_audio"),
         Op("paths", "stem_paths", 0), St(SEPARATION, 100)>>

RunTranscriptionOps ==
    <<St(TRANSCRIPTION, 0), St(TRANSCRIPTION, 20), Call("transcribe"),
      St(TRANSCRIPTION, 80), Call("export_processed_frames"),
      Op("meta", "num_frames", 0), Op("paths", "frames_json_path", 0),
      St(TRANSCRIPTION, 100)>>

RunChordDetectionOps ==
    <<St(CHORDS, 0), St(CHORDS, 15), Call("load_model"),
      St(CHORDS, 30), Call("detect_from_stems"),
      St(CHORDS, 85), Call("save_json"),
      Op("meta", "num_chords", 0), Op("paths", "chords_json_path", 0),
      St(CHORDS, 100)>>

CompleteJobOps == <<Op("status", COMPLETED, 0), Op("message", "commit", 0)>>

RunOpsOf(chunked) ==
    RunSeparationOps(chunked) \o RunTranscriptionOps \o RunChordDetectionOps
    \o CompleteJobOps

RunOpsWhole == RunOpsOf(FALSE)
RunOpsChunked == RunOpsOf(TRUE)
RunOps(chunked) == IF chunked THEN RunOpsChunked ELSE RunOpsWhole

\* a defect: a failure that forces the progress to 100
C14_fail_job_forces_progress(row, error_message) ==
    [update_job_status(row, FAILED, error_message) EXCEPT !.progress = 100]

\* fail_job(str(e)): update_job_status(FAILED, error_message)
fail_job(row, error_message) == update_job_status(row, FAILED, error_message)

\* defects: the except block swallows the exception; the except block fails
\* the job a second time
C5_AfterFailJob_swallows(task) == "returned"
C6_AfterFailJob_fails_again(task) == "handler"

\* where run() goes after fail_job in the except block: the bare raise
AfterFailJob(task) == "reraise"

\* A dispatched task: the asyncio future run_in_executor returned, the work
\* item behind it and the PipelineWorker.run it executes.
\*   reg    _job_futures[job] is this future
\*   afut   state of the asyncio future: pending, cancelled, result, exception
\*   cb     the done callback of line 55: none, scheduled (call_soon), ran
\*   task   queued (in the executor's queue), running, handler (in run's except
\*          block), reraise, returned, raised, dropped (cancelled before start)
\*   pc     index of the next call in RunOps;  exc  str(e) of the caught exception
\*   term   terminal statuses this run wrote;  late  a call of run after fail_job
\*   recorded  what fail_job wrote: none, status (FAILED only), message (FAILED
\*          and error_message)
NewFut(j) == [job |-> j, reg |-> TRUE, afut |-> "pending", cb |-> "none",
              task |-> "queued", pc |-> 1, exc |-> NULL, chunked |-> FALSE,
              term |-> 0, late |-> FALSE, recorded |-> "none"]

FutIds == 1..Len(futs)
JobFuture(j) == {f \in FutIds : futs[f].job = j /\ futs[f].reg}
\* TaskQueue._job_futures: job id -> future (0: no entry)
job_futures == [j \in JobIds |-> IF JobFuture(j) = {} THEN 0
                                 ELSE CHOOSE f \in JobFuture(j) : TRUE]
OnWorker(f) == futs[f].task \in {"running", "handler", "reraise"}
Finished(fut) == fut.task \in {"returned", "raised", "dropped"}
BusyWorkers == Cardinality({f \in FutIds : OnWorker(f)})
LoopBlocked == shutdown_call = "blocked"

\* A future whose task has ended and whose callbacks have run is referenced by
\* nothing: the loop, the executor and _job_futures have dropped it.
Garbage(fut) == Finished(fut) /\ fut.cb = "ran"

\* The executor's queue is first in, first out: futs keeps the queued work
\* items first, in dispatch order.  Nothing depends on the order of the other
\* futures, and futs keeps them sorted.
AfutCode == [pending |-> 1, cancelled |-> 2, result |-> 3, exception |-> 4]
CbCode == [none |-> 1, scheduled |-> 2, ran |-> 3]
TaskCode == [queued |-> 0, running |-> 1, handler |-> 2, reraise |-> 3,
             returned |-> 4, raised |-> 5, dropped |-> 6]
Key(fut) ==
    ((((fut.job * 10 + AfutCode[fut.afut]) * 10 + CbCode[fut.cb]) * 10
      + TaskCode[fut.task]) * 2 + (IF fut.reg THEN 1 ELSE 0)) * 100
    + fut.pc

RECURSIVE Insert(_, _)
Insert(fs, fut) ==
    IF fs = <<>> \/ Key(fut) <= Key(Head(fs)) THEN <<fut>> \o fs
    ELSE <<Head(fs)>> \o Insert(Tail(fs), fut)

RECURSIVE Sorted(_)
Sorted(fs) == IF fs = <<>> THEN <<>> ELSE Insert(Sorted(Tail(fs)), Head(fs))

Collect(fs) ==
    SelectSeq(fs, LAMBDA fut : fut.task = "queued")
    \o Sorted(SelectSeq(fs, LAMBDA fut : fut.task # "queued" /\ ~Garbage(fut)))

\* op: the call or event; val: its result; pre: what it found; same: whether
\* it left _active_jobs and _job_futures as they were (for the hook: whether
\* it left the job in neither)
\*   submit  val "ok" or the error,  pre "active" or "new"
\*   cancel  val "true" or "false",  pre the state of the task ("none": no future)
\*   hook    val what _on_job_complete logged,  pre the state of the task
\*   task    val "returned" or "raised",  pre the state of its asyncio future
RetNone == [op |-> "none", val |-> "none", pre |-> "none", same |-> TRUE]
Ret(op, val, pre, same) == [op |-> op, val |-> val, pre |-> pre, same |-> same]

InitWith(ids) ==
    /\ jobs = [j \in 1..ids |-> NoRow]
    /\ submitted = {}
    /\ active_jobs = {}
    /\ futs = <<>>
    /\ executor_shutdown = FALSE
    /\ shutdown_call = "none"
    /\ ret = RetNone

Init == InitWith(NumJobIds)
InitScenario == InitWith(ScenarioJobIds)
InitPipeline == InitWith(PipelineJobIds)
InitStore == InitWith(StoreJobIds)

\* ----------------------------------------------------------- admission
\* JobManager.create_job; its uuid4 is a fresh id, here the lowest id without
\* a row.
CreateJob(j) ==
    /\ ~LoopBlocked
    /\ jobs[j].status = "absent"
    /\ \A i \in JobIds : i < j => jobs[i].status # "absent"
    /\ count_active_jobs(jobs) < max_concurrent_jobs
    /\ jobs' = [jobs EXCEPT ![j] = NewRow]
    /\ ret' = RetNone
    /\ UNCHANGED <<submitted, active_jobs, futs, executor_shutdown,
                   shutdown_call>>

\* DELETE /jobs/{job_id} (api/routes/jobs.py): get_job answers 404 for a job
\* without a row; otherwise the job's storage directory is removed and
\* JobManager.delete_job deletes the row.  Neither the status of the job nor
\* the TaskQueue is consulted.
DeleteJob(j) ==
    /\ ~LoopBlocked
    /\ ~get_job_raises(jobs[j])
    /\ jobs' = [jobs EXCEPT ![j] = DeletedRow]
    /\ ret' = RetNone
    /\ UNCHANGED <<submitted, active_jobs, futs, executor_shutdown,
                   shutdown_call>>

\* ----------------------------------------------------------- scheduler
\* a defect: the capacity check off by one
C1_can_accept_job_at_limit(active) == Cardinality(active) <= max_concurrent_jobs
can_accept_job(active) == Cardinality(active) < max_concurrent_jobs
is_job_active(active, j) == j \in active

\* a defect: submit_job without the duplicate check of lines 45-46
C2_submit_outcome_no_duplicate_check(active, j, shut) ==
    IF Cardinality(active) >= max_concurrent_jobs THEN "full"
    ELSE IF shut THEN "shutdown"
    ELSE "ok"

\* TaskQueue.submit_job(job_id, run_pipeline_task, job_id, path), called for a
\* job that waits in the table as QUEUED; the coroutine has no await, so the
\* loop runs it in one piece.  The outcome is "full",
\* "already" (the RuntimeErrors of lines 43 and 46), "shutdown" (the RuntimeError
\* of executor.submit under run_in_executor) or "ok" (the future is returned).
submit_outcome(active, j, shut) ==
    IF ~can_accept_job(active) THEN "full"
    ELSE IF is_job_active(active, j) THEN "already"
    ELSE IF shut THEN "shutdown"
    ELSE "ok"

\* line 48 runs before run_in_executor raises
submit_registers(out) == out \in {"ok", "shutdown"}

Unregister(fs, j) ==
    [f \in 1..Len(fs) |-> IF fs[f].job = j THEN [fs[f] EXCEPT !.reg = FALSE] ELSE fs[f]]

\* The caller: the upload route dispatches each job once, under a uuid4 of
\* its own (api/routes/transcription.py); jobs not yet dispatched differ in
\* their ids only, and the lowest goes first.  A call for a dispatched job is
\* repeated only while the job is active.
Fresh(j) == jobs[j].status = QUEUED /\ j \notin submitted

Submit(j) ==
    LET out == submit_outcome(active_jobs, j, executor_shutdown) IN
    /\ ~LoopBlocked
    /\ jobs[j].status = QUEUED
    /\ \/ is_job_active(active_jobs, j)
       \/ Fresh(j) /\ \A i \in JobIds : i < j => ~Fresh(i)
    /\ submitted' = IF submit_registers(out) THEN submitted \cup {j} ELSE submitted
    /\ active_jobs' = IF submit_registers(out) THEN active_jobs \cup {j}
                      ELSE active_jobs
    /\ futs' = IF out = "ok" THEN Collect(Append(Unregister(futs, j), NewFut(j)))
               ELSE futs
    /\ ret' = Ret("submit", out,
                  IF is_job_active(active_jobs, j) THEN "active" ELSE "new",
                  active_jobs' = active_jobs /\ futs' = futs)
    /\ UNCHANGED <<jobs, executor_shutdown, shutdown_call>>

\* asyncio.Future.cancel(): False when the future is done, otherwise the future
\* becomes cancelled and its callbacks are scheduled, whatever the state of the
\* work item in the executor.
future_cancel(fut) == fut.afut = "pending"

\* TaskQueue.cancel_job
Cancel(j) ==
    LET f == job_futures[j]
        cancelled == f # 0 /\ future_cancel(futs[f]) IN
    /\ ~LoopBlocked
    /\ futs' = IF cancelled
               THEN Collect([futs EXCEPT ![f].afut = "cancelled",
                                         ![f].cb = "scheduled", ![f].reg = FALSE])
               ELSE futs
    /\ active_jobs' = IF cancelled THEN active_jobs \ {j} ELSE active_jobs
    /\ ret' = Ret("cancel", IF cancelled THEN "true" ELSE "false",
                  IF f = 0 THEN "none" ELSE futs[f].task,
                  active_jobs' = active_jobs /\ futs' = futs)
    /\ UNCHANGED <<jobs, submitted, executor_shutdown, shutdown_call>>

\* future.result() inside _on_job_complete: the value is logged at info, an
\* Exception at error; CancelledError is a BaseException and leaves the hook.
hook_result(afut) ==
    CASE afut = "result" -> "info"
      [] afut = "exception" -> "error"
      [] afut = "cancelled" -> "escaped"

\* a defect: the hook leaves the job in the active set
C9_on_job_complete_keeps_active(active, j) == active
on_job_complete_active(active, j) == active \ {j}
on_job_complete_futures(fs, j) == Unregister(fs, j)

\* The callbacks of a done asyncio future, run by the loop in one iteration:
\* _call_check_cancel of wrap_future (cancels the work item if it has not
\* started) and then the lambda of line 55, _on_job_complete(job_id, f).
OnJobComplete(f) ==
    LET checked == [futs EXCEPT ![f].cb = "ran",
                                ![f].task = IF futs[f].afut = "cancelled" /\ @ = "queued"
                                            THEN "dropped" ELSE @] IN
    /\ ~LoopBlocked
    /\ futs[f].cb = "scheduled"
    /\ futs' = Collect(on_job_complete_futures(checked, futs[f].job))
    /\ active_jobs' = on_job_complete_active(active_jobs, futs[f].job)
    /\ ret' = Ret("hook", hook_result(futs[f].afut), futs[f].task,
                  /\ futs[f].job \notin active_jobs'
                  /\ \A g \in 1..Len(futs') : ~(futs'[g].job = futs[f].job /\ futs'[g].reg))
    /\ UNCHANGED <<jobs, submitted, executor_shutdown, shutdown_call>>

\* _set_state of wrap_future, which the finished work item posts to the loop
\* with call_soon_threadsafe: copies the outcome unless the asyncio future was
\* cancelled, and schedules the done callbacks.
LoopSetState(f) ==
    /\ ~LoopBlocked
    /\ futs[f].task \in {"returned", "raised"}
    /\ futs[f].afut = "pending"
    /\ futs' = Collect([futs EXCEPT ![f].afut = IF futs[f].task = "returned"
                                                THEN "result" ELSE "exception",
                                    ![f].cb = "scheduled"])
    /\ ret' = RetNone
    /\ UNCHANGED <<jobs, submitted, active_jobs, executor_shutdown,
                   shutdown_call>>

\* a defect: shutdown that does not wait
C10_shutdown_returns_at_once == TRUE

\* ThreadPoolExecutor.shutdown(wait=True) returns when the workers have drained
\* the queue and exited.
shutdown_may_return == \A f \in FutIds : Finished(futs[f])

\* TaskQueue.shutdown(wait=True), called on the loop thread (api/main.py:50):
\* the executor refuses new work from now on, and the loop thread is blocked
\* until shutdown returns.
Shutdown ==
    /\ shutdown_call = "none"
    /\ executor_shutdown' = TRUE
    /\ shutdown_call' = IF shutdown_may_return THEN "returned" ELSE "blocked"
    /\ ret' = RetNone
    /\ UNCHANGED <<jobs, submitted, active_jobs, futs>>

ShutdownReturn ==
    /\ shutdown_call = "blocked"
    /\ shutdown_may_return
    /\ shutdown_call' = "returned"
    /\ ret' = RetNone
    /\ UNCHANGED <<jobs, submitted, active_jobs, futs, executor_shutdown>>

\* -------------------------------------------------------------- workers
\* A worker thread takes the oldest work item of the executor's queue.
WorkerStart(f) ==
    /\ futs[f].task = "queued"
    /\ f = 1
    /\ BusyWorkers < max_concurrent_jobs
    /\ futs' = Collect([futs EXCEPT ![f].task = "running"])
    /\ ret' = RetNone
    /\ UNCHANGED <<jobs, submitted, active_jobs, executor_shutdown,
                   shutdown_call>>

Advance(fut) ==
    IF fut.pc = Len(RunOps(fut.chunked))
    THEN [fut EXCEPT !.task = "returned"]
    ELSE [fut EXCEPT !.pc = @ + 1]

Raise(fut, msg) == [fut EXCEPT !.task = "handler", !.exc = msg]

\* One call of run(): the possible (row, task) after it.  A collaborator
\* returns or raises an exception with one of CollaboratorMsgs; torchaudio.load
\* returns an audio that is or is not longer than chunk_duration.
RunStepRow(fut, row) ==
    LET op == RunOps(fut.chunked)[fut.pc]
        seen == [fut EXCEPT !.late = @ \/ fut.recorded # "none"]
    IN
    CASE fut.task = "handler" ->
            {[row |-> fail_job(row, fut.exc),
              fut |-> [fut EXCEPT !.task = AfterFailJob(fut.task),
                                  !.term = @ + 1,
                                  !.recorded = IF Truthy(fut.exc) THEN "message"
                                               ELSE "status"]]}
      [] fut.task = "reraise" ->
            {[row |-> row, fut |-> [fut EXCEPT !.task = "raised"]]}
      [] fut.task = "running" /\ op.k = "status" ->
            {[row |-> update_job_status(row, op.a, NULL),
              fut |-> Advance([seen EXCEPT !.term =
                                 IF op.a \in {COMPLETED, FAILED} THEN @ + 1 ELSE @])]}
      [] fut.task = "running" /\ op.k = "stage" ->
            LET r == update_stage(row, op.a, op.n) IN
            {[row |-> r.row,
              fut |-> IF r.exc = NULL THEN Advance(seen) ELSE Raise(seen, r.exc)]}
      [] fut.task = "running" /\ op.k = "call" ->
            {[row |-> row, fut |-> Advance(seen)]}
            \cup {[row |-> row, fut |-> Raise(seen, m)] : m \in CollaboratorMsgs}
      [] fut.task = "running" /\ op.k = "load" ->
            {[row |-> row, fut |-> Advance([seen EXCEPT !.chunked = c])] : c \in BOOLEAN}
            \cup {[row |-> row, fut |-> Raise(seen, m)] : m \in CollaboratorMsgs}
      [] fut.task = "running" /\ op.k \in {"paths", "meta"} ->
            {[row |-> [row EXCEPT ![op.a] = TRUE], fut |-> Advance(seen)]}
      [] fut.task = "running" /\ op.k = "message" ->
            {[row |-> row, fut |-> Advance(seen)]}

\* One call of run() for a job whose row is gone: every JobManager call raises
\* JobNotFoundException at get_job; update_stage raises its TypeError before
\* that; fail_job raises inside the except block, so that exception leaves
\* run() and nothing is recorded.
RunStepNoRow(fut, row) ==
    LET op == RunOps(fut.chunked)[fut.pc] IN
    CASE fut.task = "handler" ->
            {[row |-> row, fut |-> [fut EXCEPT !.task = "raised",
                                               !.exc = JobNotFoundMsg]]}
      [] fut.task = "reraise" ->
            {[row |-> row, fut |-> [fut EXCEPT !.task = "raised"]]}
      [] fut.task = "running" /\ op.k = "stage" ->
            {[row |-> row, fut |-> Raise(fut, update_stage(row, op.a, op.n).exc)]}
      [] fut.task = "running" /\ op.k \in {"call", "load"} ->
            RunStepRow(fut, row)
      [] fut.task = "running" /\ op.k \in {"status", "paths", "meta", "message"} ->
            {[row |-> row, fut |-> Raise(fut, JobNotFoundMsg)]}

RunStep(fut, row) ==
    IF get_job_raises(row) THEN RunStepNoRow(fut, row) ELSE RunStepRow(fut, row)

\* run_pipeline_task from its first call to its return or raise
RECURSIVE RunToEnd(_, _)
RunToEnd(fut, row) ==
    IF fut.task \in {"returned", "raised"} THEN {[row |-> row, fut |-> fut]}
    ELSE UNION {RunToEnd(r.fut, r.row) : r \in RunStep(fut, row)}

\* The work item ends: its outcome goes to the asyncio future unless that one
\* was cancelled (_copy_future_state returns at dest.cancelled()).
WorkerEffect(f, r) ==
    /\ futs' = Collect([futs EXCEPT ![f] = r.fut])
    /\ jobs' = [jobs EXCEPT ![futs[f].job] = r.row]
    /\ ret' = IF Finished(r.fut) THEN Ret("task", r.fut.task, futs[f].afut, TRUE)
              ELSE RetNone
    /\ UNCHANGED <<submitted, active_jobs, executor_shutdown, shutdown_call>>

\* run_pipeline_task on a worker thread: the next call of PipelineWorker.run
WorkerStep(f) ==
    /\ OnWorker(f)
    /\ \E r \in RunStep(futs[f], jobs[futs[f].job]) : WorkerEffect(f, r)

\* run_pipeline_task on a worker thread, from start to end in one step
WorkerRun(f) ==
    /\ OnWorker(f)
    /\ \E r \in RunToEnd(futs[f], jobs[futs[f].job]) : WorkerEffect(f, r)

\* The scheduler in service: submit_job, cancel_job and completion; a task's
\* run is one step.
Next ==
    \/ \E j \in JobIds : CreateJob(j)
    \/ \E j \in JobIds : Submit(j)
    \/ \E j \in JobIds : Cancel(j)
    \/ \E f \in FutIds : OnJobComplete(f)
    \/ \E f \in FutIds : LoopSetState(f)
    \/ \E f \in FutIds : WorkerStart(f)
    \/ \E f \in FutIds : WorkerRun(f)

Spec == Init /\ [][Next]_vars

\* Submissions and completions only, no cancel_job and no shutdown.
NextScenario ==
    \/ \E j \in JobIds : CreateJob(j)
    \/ \E j \in JobIds : Submit(j)
    \/ \E f \in FutIds : OnJobComplete(f)
    \/ \E f \in FutIds : LoopSetState(f)
    \/ \E f \in FutIds : WorkerStart(f)
    \/ \E f \in FutIds : WorkerRun(f)

SpecScenario == InitScenario /\ [][NextScenario]_vars

\* Every operation, shutdown included; a task's run advances call by call.
NextPipeline ==
    \/ \E j \in JobIds : CreateJob(j)
    \/ \E j \in JobIds : Submit(j)
    \/ \E j \in JobIds : Cancel(j)
    \/ \E f \in FutIds : OnJobComplete(f)
    \/ \E f \in FutIds : LoopSetState(f)
    \/ Shutdown
    \/ ShutdownReturn
    \/ \E f \in FutIds : WorkerStart(f)
    \/ \E f \in FutIds : WorkerStep(f)

SpecPipeline == InitPipeline /\ [][NextPipeline]_vars

\* The same under fair scheduling: a worker thread that can take or continue
\* the task of a job does so, the event loop runs the callbacks that are
\* ready, and shutdown returns once the workers are done.  The calls of
\* create_job, submit_job, cancel_job and shutdown are the callers' and may
\* or may not happen.
SpecPipelineFair ==
    /\ SpecPipeline
    /\ \A j \in 1..PipelineJobIds :
          /\ WF_vars(\E f \in FutIds : futs[f].job = j /\ WorkerStart(f))
          /\ WF_vars(\E f \in FutIds : futs[f].job = j /\ WorkerStep(f))
          /\ WF_vars(\E f \in FutIds : futs[f].job = j /\ LoopSetState(f))
          /\ WF_vars(\E f \in FutIds : futs[f].job = j /\ OnJobComplete(f))
    /\ WF_vars(ShutdownReturn)

\* The service as its routes drive it: uploads, dispatch, completion and the
\* delete route; a task's run advances call by call.
NextStore ==
    \/ \E j \in JobIds : CreateJob(j)
    \/ \E j \in JobIds : Submit(j)
    \/ \E j \in JobIds : DeleteJob(j)
    \/ \E f \in FutIds : OnJobComplete(f)
    \/ \E f \in FutIds : LoopSetState(f)
    \/ \E f \in FutIds : WorkerStart(f)
    \/ \E f \in FutIds : WorkerStep(f)

SpecStore == InitStore /\ [][NextStore]_vars

\* ------------------------------------------------------------ job store
\* ProgressTracker.fail_job applied to a job's record, whatever the run has
\* written to it so far.  The records: a job not yet terminal or just
\* completed, with any stage, progress, file paths and metadata.
ProgressValues == {0, 23, 50, 100}
StoreRows ==
    {[NoRow EXCEPT !.status = st, !.stage = sg, !.progress = p,
                   !.started_at = (st # QUEUED), !.completed_at = (st = COMPLETED),
                   !.stem_paths = sp, !.frames_json_path = fp,
                   !.chords_json_path = cp, !.num_frames = fp, !.num_chords = cp] :
        st \in {QUEUED, PROCESSING, COMPLETED}, sg \in {NULL} \cup ProcessingStage,
        p \in ProgressValues, sp \in BOOLEAN, fp \in BOOLEAN, cp \in BOOLEAN}

InitJobStore ==
    /\ jobs \in [{1} -> StoreRows]
    /\ submitted = {}
    /\ active_jobs = {}
    /\ futs = <<>>
    /\ executor_shutdown = FALSE
    /\ shutdown_call = "none"
    /\ ret = RetNone

FailJob(j, error_message) ==
    /\ ret.op = "none"
    /\ jobs' = [jobs EXCEPT ![j] = fail_job(@, error_message)]
    /\ ret' = Ret("fail_job", "none", error_message, TRUE)
    /\ UNCHANGED <<submitted, active_jobs, futs, executor_shutdown,
                   shutdown_call>>

NextJobStore ==
    \E j \in JobIds, m \in CollaboratorMsgs \cup {TypeErrorMsg} : FailJob(j, m)

SpecJobStore == InitJobStore /\ [][NextJobStore]_vars

\* ------------------------------------------------------- pure functions
\* A function of the pipeline's stages is applied to one argument: ret holds
\* the argument (pre) and then the result (val); no job and no task exists.
InitArgs(op, args) ==
    /\ jobs = <<>>
    /\ submitted = {}
    /\ active_jobs = {}
    /\ futs = <<>>
    /\ executor_shutdown = FALSE
    /\ shutdown_call = "none"
    /\ ret \in {Ret(op, "none", x, TRUE) : x \in args}

\* ------------------------------------------------------ progress formula
\* The overall progress update_stage computes (lines 23-25) for a stage and a
\* stage-local progress, also out of 0..100.
LocalProgress == (0 - LocalMargin)..(100 + LocalMargin)

InitProgress ==
    /\ jobs = <<>>
    /\ submitted = {}
    /\ active_jobs = {}
    /\ futs = <<>>
    /\ executor_shutdown = FALSE
    /\ shutdown_call = "none"
    /\ ret = RetNone

ComputeProgress(stage, stage_progress) ==
    /\ ret' = Ret("update_stage", overall_progress(stage, stage_progress),
                  <<stage, stage_progress>>, TRUE)
    /\ UNCHANGED <<jobs, submitted, active_jobs, futs, executor_shutdown,
                   shutdown_call>>

NextProgress ==
    \E stage \in ProcessingStage, p \in LocalProgress : ComputeProgress(stage, p)

SpecProgress == InitProgress /\ [][NextProgress]_vars

\* ------------------------------------------------- chord post-processor
\* Times are in units of 100 ms and confidences in percent.  A raw prediction
\* is the tuple (time, label, confidence); a chord event is a ChordEvent.
smooth_duration == 2
default_min_chord_duration == 1
default_filter_low_confidence == 30

ChordEvent(start_time, end_time, chord_label, confidence) ==
    [start_time |-> start_time, end_time |-> end_time,
     chord_label |-> chord_label, confidence |-> confidence]

duration(c) == c.end_time - c.start_time

\* the for loop of _convert_to_events from frame i on
RECURSIVE convert_loop(_, _, _, _, _)
convert_loop(predictions, i, current_chord, start_time, events) ==
    IF i > Len(predictions)
    THEN [events |-> events, current_chord |-> current_chord, start_time |-> start_time]
    ELSE LET time == predictions[i][1]
             label == predictions[i][2]
             confidence == predictions[i][3] IN
         IF current_chord = NULL
         THEN convert_loop(predictions, i + 1, label, time, events)
         ELSE IF label # current_chord
         THEN convert_loop(predictions, i + 1, label, time,
                           Append(events, ChordEvent(start_time, time, current_chord,
                                                     confidence)))
         ELSE convert_loop(predictions, i + 1, current_chord, start_time, events)

\* a defect: every event runs to the last frame
C17_convert_to_events_to_the_end(predictions) ==
    LET r == convert_loop(predictions, 1, NULL, 0, <<>>)
        last == predictions[Len(predictions)]
        events == Append(r.events, ChordEvent(r.start_time, last[1], r.current_chord, last[3]))
    IN  [i \in 1..Len(events) |-> [events[i] EXCEPT !.end_time = last[1]]]

\* a defect: the run that is open at the end is not emitted
C25_convert_to_events_no_last(predictions) ==
    convert_loop(predictions, 1, NULL, 0, <<>>).events

convert_to_events(predictions) ==
    LET r == convert_loop(predictions, 1, NULL, 0, <<>>)
        last == predictions[Len(predictions)] IN
    IF r.current_chord # NULL /\ Len(predictions) > 0
    THEN Append(r.events, ChordEvent(r.start_time, last[1], r.current_chord, last[3]))
    ELSE r.events

filter_by_confidence(chords, filter_low_confidence) ==
    SelectSeq(chords, LAMBDA c : c.confidence >= filter_low_confidence)

\* the for loop of _smooth_chords from index i on (1-based)
RECURSIVE smooth_loop(_, _, _)
smooth_loop(chords, i, smoothed) ==
    IF i > Len(chords) THEN smoothed
    ELSE IF i = 1 \/ i = Len(chords)
    THEN smooth_loop(chords, i + 1, Append(smoothed, chords[i]))
    ELSE IF /\ duration(chords[i]) < smooth_duration
            /\ chords[i - 1].chord_label = chords[i + 1].chord_label
            /\ chords[i].chord_label # chords[i - 1].chord_label
    THEN smooth_loop(chords, i + 1, smoothed)
    ELSE smooth_loop(chords, i + 1, Append(smoothed, chords[i]))

smooth_chords(chords) ==
    IF Len(chords) < 3 THEN chords ELSE smooth_loop(chords, 1, <<>>)

\* the for loop of _merge_consecutive from index i on
RECURSIVE merge_loop(_, _, _)
merge_loop(chords, i, merged) ==
    IF i > Len(chords) THEN merged
    ELSE LET chord == chords[i]
             n == Len(merged) IN
         IF chord.chord_label = merged[n].chord_label
         THEN merge_loop(chords, i + 1,
                         [merged EXCEPT ![n].end_time = chord.end_time,
                                        ![n].confidence = Max(@, chord.confidence)])
         ELSE merge_loop(chords, i + 1, Append(merged, chord))

\* a defect: a merge that keeps every event
C19_merge_consecutive_keeps_all(chords) == chords

merge_consecutive(chords) ==
    IF chords = <<>> THEN <<>> ELSE merge_loop(chords, 2, <<chords[1]>>)

filter_short_chords(chords, min_duration) ==
    SelectSeq(chords, LAMBDA c : duration(c) >= min_duration)

\* ChordPostProcessor.process under a ChordDetectionConfig
process(raw_predictions, config) ==
    IF raw_predictions = <<>> THEN <<>>
    ELSE LET converted == convert_to_events(raw_predictions)
             confident == IF config.filter_low_confidence > 0
                          THEN filter_by_confidence(converted, config.filter_low_confidence)
                          ELSE converted
             smoothed == IF config.smooth_chords THEN smooth_chords(confident)
                         ELSE confident
         IN  filter_short_chords(merge_consecutive(smoothed), config.min_chord_duration)

\* Raw prediction streams of up to MaxFrames frames: each frame comes 0, 1 or
\* 2 time units after the one before (the first after time 0), with one of two
\* labels and a confidence below or above the default threshold.
ChordLabels == {"C", "G"}
Confidences == {20, 90}
FrameSteps == {0, 1, 2} \X ChordLabels \X Confidences

RECURSIVE TimeOf(_, _)
TimeOf(steps, i) == IF i = 0 THEN 0 ELSE TimeOf(steps, i - 1) + steps[i][1]

Timed(steps) ==
    [i \in 1..Len(steps) |-> <<TimeOf(steps, i), steps[i][2], steps[i][3]>>]

RawPredictions(max_frames) ==
    UNION {{Timed(steps) : steps \in [1..n -> FrameSteps]} : n \in 0..max_frames}

\* ChordDetectionConfig: smoothing on (the default) or off, the confidence
\* filter at its default or off, the default minimum duration
ChordConfigs ==
    [smooth_chords : BOOLEAN,
     filter_low_confidence : {0, default_filter_low_confidence},
     min_chord_duration : {default_min_chord_duration}]

InitChords ==
    InitArgs("raw_predictions", RawPredictions(MaxFrames) \X ChordConfigs)

Process ==
    /\ ret.op = "raw_predictions"
    /\ ret' = Ret("process", process(ret.pre[1], ret.pre[2]), ret.pre, TRUE)
    /\ UNCHANGED <<jobs, submitted, active_jobs, futs, executor_shutdown,
                   shutdown_call>>

SpecChords == InitChords /\ [][Process]_vars

\* The first two stages of process: the events of _convert_to_events, and
\* what the confidence filter leaves of them.
ConvertAndFilter ==
    /\ ret.op = "raw_predictions"
    /\ LET chords == convert_to_events(ret.pre[1])
           config == ret.pre[2]
       IN  ret' = Ret("convert_to_events",
                      <<chords,
                        IF config.filter_low_confidence > 0
                        THEN filter_by_confidence(chords, config.filter_low_confidence)
                        ELSE chords>>,
                      ret.pre, TRUE)
    /\ UNCHANGED <<jobs, submitted, active_jobs, futs, executor_shutdown,
                   shutdown_call>>

SpecConvert == InitChords /\ [][ConvertAndFilter]_vars

\* The scenario of five frames one second apart, with a minimum duration of
\* 1.5 s and smoothing disabled; the frames take any of the two labels and a
\* confidence of 0.8 or 0.9.
ScenarioTimes == <<0, 10, 20, 30, 40>>
ScenarioConfig ==
    [smooth_chords |-> FALSE,
     filter_low_confidence |-> default_filter_low_confidence,
     min_chord_duration |-> 15]
ScenarioPredictions ==
    <<<<0, "C", 90>>, <<10, "C", 80>>, <<20, "G", 90>>, <<30, "G", 90>>, <<40, "G", 90>>>>

InitChordScenario ==
    InitArgs("raw_predictions",
             {<<[i \in 1..Len(ScenarioTimes) |->
                   <<ScenarioTimes[i], labels[i], confs[i]>>], ScenarioConfig>> :
                labels \in [1..Len(ScenarioTimes) -> ChordLabels],
                confs \in [1..Len(ScenarioTimes) -> {80, 90}]})

SpecChordScenario == InitChordScenario /\ [][Process]_vars

\* Lists of up to MaxEvents chord events, in any order: an event starts at 0
\* or 1 and ends at 1 or 2.
ChordEvents ==
    {ChordEvent(st, en, l, c) :
        st \in {0, 1}, en \in {1, 2}, l \in ChordLabels, c \in Confidences}

EventLists(max_events) == UNION {[1..n -> ChordEvents] : n \in 0..max_events}

InitMerge == InitArgs("chords", EventLists(MaxEvents))

\* _merge_consecutive applied once and applied to its own result
MergeTwice ==
    /\ ret.op = "chords"
    /\ ret' = Ret("merge_consecutive",
                  <<merge_consecutive(ret.pre),
                    merge_consecutive(merge_consecutive(ret.pre))>>,
                  ret.pre, TRUE)
    /\ UNCHANGED <<jobs, submitted, active_jobs, futs, executor_shutdown,
                   shutdown_call>>

SpecMerge == InitMerge /\ [][MergeTwice]_vars

\* --------------------------------------------------------- note segmenter
\* Times are in ms and pitches in half semitones (MIDI 60 is 120).
hop_size_ms == 10
min_note_duration_ms == 40
note_gap_threshold_ms == 80
pitch_jump_threshold == 3
DEFAULT_VELOCITY == 100

PitchFrame(time, frequency, confidence, midi_pitch) ==
    [time |-> time, frequency |-> frequency, confidence |-> confidence,
     midi_pitch |-> midi_pitch]

is_voiced(frame) == frame.frequency > 0 /\ frame.confidence > 0

NoteEvent(start_time, end_time, anchor_midi, pitch_contour, velocity) ==
    [start_time |-> start_time, end_time |-> end_time, anchor_midi |-> anchor_midi,
     pitch_contour |-> pitch_contour, velocity |-> velocity]

\* the for loop of _find_voiced_segments from frame i on
RECURSIVE voiced_loop(_, _, _, _)
voiced_loop(frames, i, segments, current_segment) ==
    IF i > Len(frames)
    THEN IF current_segment # <<>> THEN Append(segments, current_segment) ELSE segments
    ELSE LET frame == frames[i] IN
         IF is_voiced(frame)
         THEN IF /\ current_segment # <<>>
                 /\ frame.time - current_segment[Len(current_segment)].time
                      > note_gap_threshold_ms + hop_size_ms
              THEN voiced_loop(frames, i + 1, Append(segments, current_segment), <<frame>>)
              ELSE voiced_loop(frames, i + 1, segments, Append(current_segment, frame))
         ELSE IF current_segment # <<>>
              THEN voiced_loop(frames, i + 1, Append(segments, current_segment), <<>>)
              ELSE voiced_loop(frames, i + 1, segments, <<>>)

find_voiced_segments(frames) == voiced_loop(frames, 1, <<>>, <<>>)

\* _find_anchor_note: the histogram has bins of half a semitone from MIDI 30
\* to 89.5; argmax takes the first of the fullest bins, and the centre of the
\* bin of pitch v (v/2 + 0.25) rounds to (v + 1) \div 2.  With no pitch in
\* range the first bin wins.
find_anchor_note(midi_values) ==
    LET inrange == {midi_values[k] : k \in 1..Len(midi_values)} \cap 60..179
        count(v) == Cardinality({k \in 1..Len(midi_values) : midi_values[k] = v})
        peak == CHOOSE v \in inrange :
                    \A w \in inrange : count(w) < count(v) \/ (count(w) = count(v) /\ v <= w)
    IN
    IF midi_values = <<>> THEN 60
    ELSE IF inrange = {} THEN 30
    ELSE (peak + 1) \div 2

midi_values_of(seg) == [k \in 1..Len(seg) |-> seg[k].midi_pitch]

\* a defect: a note that lasts two hops beyond its last frame
C20_note_of_too_long(seg, velocity) ==
    NoteEvent(seg[1].time, seg[Len(seg)].time + 3 * hop_size_ms,
              find_anchor_note(midi_values_of(seg)), seg, velocity)

\* a note over a run of frames, as lines 62-68 and 149-155 build it
note_of(seg, velocity) ==
    NoteEvent(seg[1].time, seg[Len(seg)].time + hop_size_ms,
              find_anchor_note(midi_values_of(seg)), seg, velocity)

create_notes_from_segments(segments) ==
    [k \in 1..Len(segments) |-> note_of(segments[k], DEFAULT_VELOCITY)]

\* the while loop of _merge_short_notes from index i on
RECURSIVE merge_notes_loop(_, _, _)
merge_notes_loop(notes, i, merged) ==
    IF i > Len(notes) THEN merged
    ELSE LET current == notes[i]
             n == Len(merged) IN
         IF /\ duration(current) < min_note_duration_ms
            /\ merged # <<>>
            /\ current.start_time - merged[n].end_time < note_gap_threshold_ms
         THEN merge_notes_loop(notes, i + 1,
                               [merged EXCEPT ![n].end_time = current.end_time,
                                              ![n].pitch_contour = @ \o current.pitch_contour])
         ELSE merge_notes_loop(notes, i + 1, Append(merged, current))

\* a defect: no short note is merged
C21_merge_short_notes_none(notes) == notes

merge_short_notes(notes) ==
    IF Len(notes) < 2 THEN notes ELSE merge_notes_loop(notes, 1, <<>>)

Abs(x) == IF x < 0 THEN 0 - x ELSE x

split_note_on_jumps(note) ==
    LET contour == note.pitch_contour
        jumps == SelectSeq([i \in 1..Len(contour) |-> i],
                           LAMBDA i : i > 1 /\ Abs(contour[i].midi_pitch
                                                    - contour[i - 1].midi_pitch)
                                                > pitch_jump_threshold)
        split_indices == <<1>> \o jumps \o <<Len(contour) + 1>>
    IN  IF Len(contour) < 3 \/ jumps = <<>> THEN <<note>>
        ELSE [k \in 1..(Len(split_indices) - 1) |->
                note_of(SubSeq(contour, split_indices[k], split_indices[k + 1] - 1),
                        note.velocity)]

RECURSIVE split_loop(_, _, _)
split_loop(notes, i, result) ==
    IF i > Len(notes) THEN result
    ELSE split_loop(notes, i + 1, result \o split_note_on_jumps(notes[i]))

split_on_pitch_jumps(notes) == split_loop(notes, 1, <<>>)

\* NoteSegmenter.segment
segment(frames) ==
    IF frames = <<>> THEN <<>>
    ELSE split_on_pitch_jumps(merge_short_notes(
             create_notes_from_segments(find_voiced_segments(frames))))

\* Pitch frames at uniform hop spacing from time 0: each frame is unvoiced or
\* voiced with one of three pitches (MIDI 60, 61, 62).
FramePitches == {0, 120, 122, 124}
PitchFrames(max_frames) ==
    UNION {{[i \in 1..n |-> PitchFrame((i - 1) * hop_size_ms, ps[i],
                                        IF ps[i] > 0 THEN 50 ELSE 0, ps[i])] :
              ps \in [1..n -> FramePitches]} : n \in 0..max_frames}

InitSegmenter == InitArgs("frames", PitchFrames(MaxPitchFrames))

Segment ==
    /\ ret.op = "frames"
    /\ ret' = Ret("segment", segment(ret.pre), ret.pre, TRUE)
    /\ UNCHANGED <<jobs, submitted, active_jobs, futs, executor_shutdown,
                   shutdown_call>>

SpecSegmenter == InitSegmenter /\ [][Segment]_vars

\* ------------------------------------------------------------- chunk merger
\* A stem buffer is the sequence of the samples of one channel (every channel
\* and every stem is handled alike). A sample is an integer number of
\* 1/SampleUnit, so that the fades, which are multiples of a quarter for an
\* overlap of up to four samples, stay exact.
SampleUnit == 65536

\* (1 - cos(t)) / 2 over np.linspace(0, pi, n), in quarters
fade_in(n) ==
    CASE n = 0 -> <<>>
      [] n = 1 -> <<0>>
      [] n = 2 -> <<0, 4>>
      [] n = 3 -> <<0, 2, 4>>
      [] n = 4 -> <<0, 1, 3, 4>>

\* the bound i of a slice of an array of n samples
slice_index(i, n) == IF i < 0 THEN Max(i + n, 0) ELSE Min(i, n)

\* One pass of the loop of merge_chunks: the head of the chunk is faded into
\* result[pos : pos + actual_overlap], the rest is copied behind it. An
\* operand that cannot be broadcast to the slice raises. The buffer travels
\* as [raises, merged]: merged is the array, raises says that the call has
\* raised.
blend_chunk(state, chunk, pos, overlap_samples) ==
    LET chunk_len == Len(chunk)
        actual_overlap == Min(overlap_samples, chunk_len)
        fade_out == [j \in 1..actual_overlap |-> 4 - fade_in(actual_overlap)[j]]
        result == state.merged
        total == Len(result)
        lo == slice_index(pos, total)
        mid == slice_index(pos + actual_overlap, total)
        faded == Max(mid - lo, 0)
        remaining == chunk_len - actual_overlap
        hi == slice_index(pos + actual_overlap + remaining, total)
        copied == Max(hi - mid, 0)
        fades(n) == n = actual_overlap \/ actual_overlap = 1
        copies(n) == n = remaining \/ remaining = 1
        faded_at(i) ==
            LET j == IF actual_overlap = 1 THEN 1 ELSE i - lo
            IN  (result[i] * fade_out[j] + chunk[j] * fade_in(actual_overlap)[j]) \div 4
        copied_at(i) ==
            chunk[actual_overlap + (IF remaining = 1 THEN 1 ELSE i - mid)]
    IN  IF state.raises \/ ~fades(faded) \/ (remaining > 0 /\ ~copies(copied))
        THEN [raises |-> TRUE, merged |-> <<>>]
        ELSE [raises |-> FALSE,
              merged |-> [i \in 1..total |->
                            IF remaining > 0 /\ i > mid /\ i <= hi THEN copied_at(i)
                            ELSE IF i > lo /\ i <= mid THEN faded_at(i)
                            ELSE result[i]]]

RECURSIVE merge_chunks_loop(_, _, _, _, _)
merge_chunks_loop(state, stem_chunks, i, pos, overlap_samples) ==
    IF i > Len(stem_chunks) THEN state
    ELSE merge_chunks_loop(blend_chunk(state, stem_chunks[i], pos, overlap_samples),
                    stem_chunks, i + 1,
                    pos + Len(stem_chunks[i])
                        - Min(overlap_samples, Len(stem_chunks[i])),
                    overlap_samples)

\* a defect: the buffer is allocated for the first chunk only
C22_total_length_first(stem_chunks, i, overlap_samples) == Len(stem_chunks[1])

RECURSIVE total_length(_, _, _)
total_length(stem_chunks, i, overlap_samples) ==
    IF i > Len(stem_chunks) THEN Len(stem_chunks[1])
    ELSE total_length(stem_chunks, i + 1, overlap_samples)
           + Len(stem_chunks[i]) - Min(overlap_samples, Len(stem_chunks[i]))

\* merge_chunks for one stem, as [raises, merged]; without chunks there is no
\* stem and nothing is merged.
merge_chunks(stem_chunks, overlap_samples) ==
    IF stem_chunks = <<>> THEN [raises |-> FALSE, merged |-> <<>>]
    ELSE IF Len(stem_chunks) = 1 THEN [raises |-> FALSE, merged |-> stem_chunks[1]]
    ELSE LET first == stem_chunks[1]
             result == [i \in 1..total_length(stem_chunks, 2, overlap_samples) |->
                          IF i <= Len(first) THEN first[i] ELSE 0]
         IN  merge_chunks_loop([raises |-> FALSE, merged |-> result], stem_chunks, 2,
                               Len(first) - overlap_samples, overlap_samples)

\* The chunks handed in: chunk k has lens[k] samples, each one its own value.
InitMergeChunks ==
    InitArgs("chunks",
             {<<[k \in DOMAIN lens |-> [i \in 1..lens[k] |-> SampleUnit * (8 * k + i)]], o>> :
                 lens \in UNION {[1..n -> 0..MaxChunkLen] : n \in 1..MaxChunks},
                 o \in 0..MaxOverlap})

MergeChunks ==
    /\ ret.op = "chunks"
    /\ ret' = Ret("merge_chunks", merge_chunks(ret.pre[1], ret.pre[2]), ret.pre, TRUE)
    /\ UNCHANGED <<jobs, submitted, active_jobs, futs, executor_shutdown,
                   shutdown_call>>

SpecMergeChunks == InitMergeChunks /\ [][MergeChunks]_vars

\* process_chunk for one stem: as many samples as the chunk holds (lines
\* 52-63 trim or pad to that). What the separator puts there is not modelled:
\* each sample carries the number of its chunk and its place in the audio.
process_chunk(chunk, chunk_num) ==
    [i \in 1..Len(chunk) |-> chunk[i] + 16 * SampleUnit * chunk_num]

\* _separate_with_chunking for one stem; the progress callbacks are the
\* ChunkOps of the pipeline above.
separate_with_chunking(audio, chunk_samples, overlap_samples) ==
    LET total_samples == Len(audio)
        step_samples == chunk_samples - overlap_samples
        total_chunks == (total_samples + step_samples - 1) \div step_samples
        start(chunk_num) == (chunk_num - 1) * step_samples
        chunks == [chunk_num \in 1..total_chunks |->
                     process_chunk(SubSeq(audio, start(chunk_num) + 1,
                                          Min(start(chunk_num) + chunk_samples,
                                              total_samples)),
                                   chunk_num)]
    IN  merge_chunks(chunks, overlap_samples)

\* An audio of more than chunk_samples samples (separator.py:73), sample p
\* holding p units, and an overlap shorter than the chunk.
InitChunking ==
    InitArgs("audio",
             {<<[p \in 1..total |-> SampleUnit * p], chunk_samples, overlap_samples>> :
                 total \in 1..MaxSamples, chunk_samples \in 2..MaxChunkSamples,
                 overlap_samples \in 0..MaxOverlap}
             \ {a \in {<<[p \in 1..total |-> SampleUnit * p], chunk_samples, overlap_samples>> :
                          total \in 1..MaxSamples, chunk_samples \in 2..MaxChunkSamples,
                          overlap_samples \in 0..MaxOverlap} :
                   Len(a[1]) <= a[2] \/ a[3] >= a[2]})

SeparateWithChunking ==
    /\ ret.op = "audio"
    /\ ret' = Ret("separate_with_chunking",
                  separate_with_chunking(ret.pre[1], ret.pre[2], ret.pre[3]),
                  ret.pre, TRUE)
    /\ UNCHANGED <<jobs, submitted, active_jobs, futs, executor_shutdown,
                   shutdown_call>>

SpecChunking == InitChunking /\ [][SeparateWithChunking]_vars

\* ------------------------------------------------------------- key detector
\* the catalog, in the order of the dict
COMMON_SCALES ==
    << <<"major", <<0, 2, 4, 5, 7, 9, 11>> >>,
       <<"minor", <<0, 2, 3, 5, 7, 8, 10>> >>,
       <<"harmonic_minor", <<0, 2, 3, 5, 7, 8, 11>> >>,
       <<"melodic_minor", <<0, 2, 3, 5, 7, 9, 11>> >>,
       <<"bilawal", <<0, 2, 4, 5, 7, 9, 11>> >>,
       <<"kafi", <<0, 2, 3, 5, 7, 9, 10>> >>,
       <<"bhairav", <<0, 1, 4, 5, 7, 8, 11>> >>,
       <<"kalyan", <<0, 2, 4, 6, 7, 9, 11>> >>,
       <<"khamaj", <<0, 2, 4, 5, 7, 9, 10>> >>,
       <<"asavari", <<0, 2, 3, 5, 7, 8, 10>> >>,
       <<"bhairavi", <<0, 1, 3, 5, 7, 8, 10>> >>,
       <<"marwa", <<0, 1, 4, 6, 7, 9, 11>> >>,
       <<"purvi", <<0, 1, 4, 6, 7, 8, 11>> >>,
       <<"todi", <<0, 1, 3, 6, 7, 8, 11>> >> >>

\* _build_pitch_class_histogram for frames of rounded pitch midi_notes[i] and
\* confidence 1, before the division by the sum (a positive factor common to
\* all scores).
build_pitch_class_histogram(midi_notes) ==
    [pitch_class \in 0..11 |->
        Cardinality({i \in DOMAIN midi_notes : midi_notes[i] % 12 = pitch_class})]

RECURSIVE detect_scale_loop(_, _, _, _)
detect_scale_loop(rotated_histogram, k, best_scale, best_score) ==
    IF k > Len(COMMON_SCALES) THEN best_scale
    ELSE LET intervals == COMMON_SCALES[k][2]
             score == rotated_histogram[intervals[1]] + rotated_histogram[intervals[2]]
                      + rotated_histogram[intervals[3]] + rotated_histogram[intervals[4]]
                      + rotated_histogram[intervals[5]] + rotated_histogram[intervals[6]]
                      + rotated_histogram[intervals[7]]
         IN  IF score > best_score
             THEN detect_scale_loop(rotated_histogram, k + 1, COMMON_SCALES[k][1], score)
             ELSE detect_scale_loop(rotated_histogram, k + 1, best_scale, best_score)

\* a defect: the histogram is not rotated to the tonic
C23_detect_scale_unrotated(histogram, tonic_midi) ==
    LET best_scale == detect_scale_loop(histogram, 1, "major", 0)
    IN  <<best_scale,
          (CHOOSE k \in DOMAIN COMMON_SCALES : COMMON_SCALES[k][1] = best_scale)>>

\* _detect_scale: the name chosen and its place in the catalog
detect_scale(histogram, tonic_midi) ==
    LET tonic_class == tonic_midi % 12
        rotated_histogram == [i \in 0..11 |-> histogram[(i + tonic_class) % 12]]
        best_scale == detect_scale_loop(rotated_histogram, 1, "major", 0)
    IN  <<best_scale,
          (CHOOSE k \in DOMAIN COMMON_SCALES : COMMON_SCALES[k][1] = best_scale)>>

\* the rounded pitches of up to MaxVoiced voiced frames and a tonic
InitScale ==
    InitArgs("histogram",
             (UNION {[1..n -> 60..71] : n \in 0..MaxVoiced}) \X (60..71))

DetectScale ==
    /\ ret.op = "histogram"
    /\ ret' = Ret("detect_scale",
                  detect_scale(build_pitch_class_histogram(ret.pre[1]), ret.pre[2]),
                  ret.pre, TRUE)
    /\ UNCHANGED <<jobs, submitted, active_jobs, futs, executor_shutdown,
                   shutdown_call>>

SpecScale == InitScale /\ [][DetectScale]_vars

\* ------------------------------------------------------------------ properties
\* C1: in every reachable state, under any interleaving of submit_job, task
\* completion and cancel_job, the active set holds at most
\* max_concurrent_jobs jobs.
C1_ActiveWithinCapacity == Cardinality(active_jobs) <= max_concurrent_jobs

\* C1, its case: the active set is full, a submit_job has just been refused
\* for that, and a job cancelled before its task started has left the set.
C1_FullAfterCancel ==
    /\ Cardinality(active_jobs) = max_concurrent_jobs
    /\ ret.op = "submit" /\ ret.val = "full"
    /\ \E j \in submitted \ active_jobs : jobs[j].status = QUEUED

\* C2 as the specification states it: submit_job of a job in the active set
\* fails with AlreadyActive, whatever the active count is, and leaves the
\* active set and the futures map unchanged.
C2_DuplicateAlwaysAlreadyActive ==
    (ret.op = "submit" /\ ret.pre = "active")
        => (ret.val = "already" /\ ret.same)

\* C2 as the code has it: submit_job of a job in the active set fails and
\* leaves the active set and the futures map unchanged; the error is
\* CapacityExceeded when the active set is full (the capacity check comes
\* first), and AlreadyActive otherwise.
C2_DuplicateRejected ==
    (ret.op = "submit" /\ ret.pre = "active")
        => /\ ret.same
           /\ ret.val = IF Cardinality(active_jobs) = max_concurrent_jobs
                        THEN "full" ELSE "already"

\* C2, its case: a duplicate submit_job below capacity has just failed with
\* AlreadyActive.
C2_DuplicateBelowCapacity ==
    /\ ret.op = "submit" /\ ret.pre = "active" /\ ret.val = "already"
    /\ Cardinality(active_jobs) < max_concurrent_jobs

\* C4: a run whose collaborators all succeed ends with its task returned and
\* the record Completed at progress 100 (after the stages in order).
C4_SuccessfulRunCompletes ==
    \A f \in FutIds :
        (futs[f].task \in {"returned", "raised"} /\ futs[f].exc \notin CollaboratorMsgs)
            => /\ futs[f].task = "returned"
               /\ jobs[futs[f].job].status = COMPLETED
               /\ jobs[futs[f].job].progress = 100

C7_CancelOnlyBeforeStart ==
    ret.op = "cancel"
        => /\ ret.val = "true" => ret.pre = "queued"
           /\ ret.pre \notin {"none", "queued"} => (ret.val = "false" /\ ret.same)

\* C8: when a dispatched task finishes, returned or raised, the completion hook
\* finds its outcome and logs it, and leaves the job neither in the active
\* set nor in the futures map.
C8_OutcomeReachesHook ==
    /\ ret.op = "task" => ret.pre = "pending"
    /\ (ret.op = "hook" /\ ret.pre \in {"returned", "raised"})
          => (ret.val \in {"info", "error"} /\ ret.same)

\* C9: submit_job of a new job id fails with CapacityExceeded exactly when
\* max_concurrent_jobs jobs are active and succeeds otherwise; after the
\* completion hook of any task there is room, and a submit_job of a new id
\* would succeed.
C9_RefusedWhenFullOnly ==
    /\ (ret.op = "submit" /\ ret.pre = "new")
          => /\ ret.val \in {"ok", "full"}
             /\ ret.val = "full"
                  <=> (ret.same /\ Cardinality(active_jobs) = max_concurrent_jobs)
    /\ ret.op = "hook"
          => \A j \in JobIds \ active_jobs :
                 submit_outcome(active_jobs, j, executor_shutdown) = "ok"

\* C9, its case: the fourth job has just been accepted into the slot that a
\* finished task left.
C9_FourthAccepted ==
    /\ ret.op = "submit" /\ ret.pre = "new" /\ ret.val = "ok"
    /\ Cardinality(active_jobs) = max_concurrent_jobs
    /\ Cardinality(submitted) = max_concurrent_jobs + 1

\* C10: after shutdown has been called no submit_job succeeds, and
\* shutdown(wait=True) has returned only if every dispatched task has finished.
C10_ShutdownRejectsAndDrains ==
    /\ (executor_shutdown /\ ret.op = "submit") => ret.val # "ok"
    /\ shutdown_call = "returned" => \A f \in FutIds : Finished(futs[f])

\* C10, its case: shutdown waited for a task and returned, and a submit_job
\* after it has just been refused by the executor.
C10_RefusedAfterDrain ==
    /\ shutdown_call = "returned"
    /\ ret.op = "submit" /\ ret.val = "shutdown"
    /\ \E f \in FutIds : futs[f].task = "raised" /\ futs[f].afut = "pending"

\* C11: while a job's task is executing on a worker, no other operation of
\* the service deletes (or writes) the job's row: a job with a task on a
\* worker has its row.
C11_RunOwnsRow ==
    \A f \in FutIds : OnWorker(f) => ~get_job_raises(jobs[futs[f].job])

\* C13: in every state of a job's record completed_at is set exactly when the
\* status is Completed or Failed; started_at is written by the step that first
\* makes the job Processing, is set from then on and is not written again.
C13_Timestamps ==
    [][\A j \in JobIds :
         LET old == jobs[j]
             new == jobs'[j] IN
         new.status \in JobStatus =>
           /\ new.completed_at <=> new.status \in {COMPLETED, FAILED}
           /\ new.status = PROCESSING => new.started_at
           /\ old.started_at => new.started_at
           /\ (new.started_at /\ ~old.started_at) =>
                 (old.status = QUEUED /\ new.status = PROCESSING)]_vars

\* C13, its case: a job that was started and then failed carries both times.
C13_StartedAndCompleted ==
    \E j \in JobIds : /\ jobs[j].status = FAILED
                      /\ jobs[j].started_at
                      /\ jobs[j].completed_at

\* C14: a step that fails a job changes nothing of its record but the status,
\* completed_at and the error message: the progress keeps its value, and the
\* stage, started_at, the file paths and the result metadata stay as they were.
C14_FailJobFrame ==
    [][\A j \in JobIds :
         (jobs[j].status \in JobStatus \ {FAILED} /\ jobs'[j].status = FAILED) =>
           /\ jobs'[j].completed_at
           /\ \A fld \in DOMAIN NoRow \ {"status", "completed_at", "error_message"} :
                 jobs'[j][fld] = jobs[j][fld]]_vars

\* C14, its case: a job failed half way keeps its progress and the paths and
\* metadata of the stages it had completed.
C14_FailedHalfWay ==
    /\ ret.op = "fail_job"
    /\ \E j \in JobIds : /\ jobs[j].status = FAILED
                         /\ jobs[j].progress = 50
                         /\ jobs[j].stem_paths
                         /\ jobs[j].frames_json_path
                         /\ jobs[j].num_frames

\* C15, as stated: for every stage and every integer local progress the
\* overall progress is floor(start + (end - start) * local / 100) clamped to
\* 0..100, and for a local progress in 0..100 it lies in the stage's window.
C15_FloorClamped ==
    ret.op = "update_stage" =>
      LET start == stage_weights(ret.pre[1])[1]
          end == stage_weights(ret.pre[1])[2]
          local == ret.pre[2] IN
      /\ ret.val = Min(Max(start + ((end - start) * local) \div 100, 0), 100)
      /\ local \in 0..100 => (start <= ret.val /\ ret.val <= end)

\* C15, amended: for a local progress of 0 or more the overall progress is
\* floor(start + (end - start) * local / 100) clamped to 0..100; for a negative
\* one the product is rounded towards zero, which gives
\* start - floor((end - start) * (-local) / 100) clamped to 0..100; for a local
\* progress in 0..100 the result lies in the stage's window.
C15_TruncatedClamped ==
    ret.op = "update_stage" =>
      LET start == stage_weights(ret.pre[1])[1]
          end == stage_weights(ret.pre[1])[2]
          local == ret.pre[2] IN
      /\ local >= 0 =>
            ret.val = Min(Max(start + ((end - start) * local) \div 100, 0), 100)
      /\ local < 0 =>
            ret.val = Min(Max(start - ((end - start) * (0 - local)) \div 100, 0), 100)
      /\ local \in 0..100 => (start <= ret.val /\ ret.val <= end)

\* C15, its case: a negative local progress in a stage that does not start at
\* 0 gives the start of the window, where the floor is one less.
C15_NegativeLocal ==
    /\ ret.op = "update_stage"
    /\ ret.pre = <<TRANSCRIPTION, 0 - 1>>
    /\ ret.val = 33

\* C16: the output events of process cover the time span of the input with
\* no gaps: the first starts at the first frame's time, each event ends where
\* the next starts, and the last ends at the end of the input (taken here as
\* the time of the last frame, the latest time process knows).
C16_CoversInput ==
    (ret.op = "process" /\ ret.pre[1] # <<>>) =>
      LET raw == ret.pre[1]
          out == ret.val IN
      /\ out # <<>>
      /\ out[1].start_time = raw[1][1]
      /\ out[Len(out)].end_time = raw[Len(raw)][1]
      /\ \A i \in 1..(Len(out) - 1) : out[i].end_time = out[i + 1].start_time

\* C17: for frame times that do not decrease, the output events of process
\* are in time order and do not overlap: every event has start <= end and
\* ends no later than the next one starts.
C17_OrderedDisjoint ==
    ret.op = "process" =>
      LET out == ret.val IN
      /\ \A i \in 1..Len(out) : out[i].start_time <= out[i].end_time
      /\ \A i \in 1..(Len(out) - 1) : out[i].end_time <= out[i + 1].start_time

\* C17, its case: process took three events from the frames and gave two
\* back.
C17_TwoOfThree ==
    /\ ret.op = "process"
    /\ Len(convert_to_events(ret.pre[1])) = 3
    /\ Len(ret.val) = 2

\* C18: the predictions (0,C,0.9) (1,C,0.8) (2,G,0.9) (3,G,0.9) (4,G,0.9),
\* processed with a minimum duration of 1.5 s and without smoothing, give
\* exactly two events, C over [0,2) and G over [2,5).
C18_ScenarioEvents ==
    (ret.op = "process" /\ ret.pre[1] = ScenarioPredictions) =>
      /\ Len(ret.val) = 2
      /\ ret.val[1].chord_label = "C"
      /\ ret.val[1].start_time = 0 /\ ret.val[1].end_time = 20
      /\ ret.val[2].chord_label = "G"
      /\ ret.val[2].start_time = 20 /\ ret.val[2].end_time = 50

\* C19: merging is idempotent, the second merge gives the events of the first
\* with the same labels, times and confidences; and no two adjacent events of
\* a merged list have the same label.
C19_MergeIdempotent ==
    ret.op = "merge_consecutive" =>
      /\ ret.val[2] = ret.val[1]
      /\ \A i \in 1..(Len(ret.val[1]) - 1) :
            ret.val[1][i].chord_label # ret.val[1][i + 1].chord_label

\* C19, its case: three or more events of one label became one event, with
\* a confidence above that of the first.
C19_MergedIntoOne ==
    /\ ret.op = "merge_consecutive"
    /\ Len(ret.pre) >= 3
    /\ Len(ret.val[1]) = 1
    /\ ret.val[1][1].confidence > ret.pre[1].confidence
    /\ ret.val[1][1].end_time = ret.pre[Len(ret.pre)].end_time

\* C20: for frames in time order at uniform hop spacing, segment gives its
\* notes in increasing order of start time, each with start < end, and no two
\* of them overlap: a note ends no later than the next one starts.
C20_NotesOrderedDisjoint ==
    ret.op = "segment" =>
      LET notes == ret.val IN
      /\ \A i \in 1..Len(notes) : notes[i].start_time < notes[i].end_time
      /\ \A i \in 1..(Len(notes) - 1) :
            /\ notes[i].start_time < notes[i + 1].start_time
            /\ notes[i].end_time <= notes[i + 1].start_time

\* C20, its case: a short note was merged into the note before it, across an
\* unvoiced frame, and the merged note was split at a pitch jump.
C20_MergedThenSplit ==
    /\ ret.op = "segment"
    /\ Len(find_voiced_segments(ret.pre)) = 2
    /\ Len(merge_short_notes(create_notes_from_segments(find_voiced_segments(ret.pre)))) = 1
    /\ Len(ret.val) >= 2

C22_OverlapZeroConcatenates ==
    LET RECURSIVE concat(_)
        concat(cs) == IF cs = <<>> THEN <<>> ELSE Head(cs) \o concat(Tail(cs))
    IN  ret.op = "merge_chunks" =>
          /\ (ret.pre[2] = 0 =>
                ~ret.val.raises /\ ret.val.merged = concat(ret.pre[1]))
          /\ (Len(ret.pre[1]) = 1 =>
                ~ret.val.raises /\ ret.val.merged = ret.pre[1][1])

\* C22, its case: three non-empty chunks were merged with overlap 0 into a
\* buffer that starts with the first chunk and ends with the last.
C22_ThreeConcatenated ==
    /\ ret.op = "merge_chunks"
    /\ ret.pre[2] = 0
    /\ Len(ret.pre[1]) = 3
    /\ \A k \in 1..3 : Len(ret.pre[1][k]) = 2
    /\ Len(ret.val.merged) = 6
    /\ ret.val.merged[1] = ret.pre[1][1][1]
    /\ ret.val.merged[6] = ret.pre[1][3][2]

\* C29: an audio of L samples, longer than one chunk, cut into chunks of C
\* samples every C - O samples (0 < O < C) is merged into exactly L samples,
\* chunk k (from 0) being blended in at offset k * (C - O) with overlap
\* min(O, length of chunk k), also when the last chunk is shorter than O.
C29_BlendedAtOwnOffset ==
    LET audio == ret.pre[1]
        C == ret.pre[2]
        O == ret.pre[3]
        chunk(k) == process_chunk(SubSeq(audio, k * (C - O) + 1,
                                         Min(k * (C - O) + C, Len(audio))), k + 1)
        RECURSIVE placed(_)
        placed(k) ==
            IF k = 0
            THEN [raises |-> FALSE,
                  merged |-> [i \in 1..Len(audio) |-> IF i <= C THEN chunk(0)[i] ELSE 0]]
            ELSE blend_chunk(placed(k - 1), chunk(k), k * (C - O), O)
    IN  (ret.op = "separate_with_chunking" /\ O > 0) =>
          /\ ~ret.val.raises
          /\ Len(ret.val.merged) = Len(audio)
          /\ ret.val = placed((Len(audio) - 1) \div (C - O))

\* C23: _detect_scale returns the template whose scale degrees, counted from
\* the tonic, carry the highest summed histogram mass, and among templates of
\* equal score the first in catalog order.
C23_BestScaleFirstOnTies ==
    LET midi_notes == ret.pre[1]
        score(k) == Cardinality({i \in DOMAIN midi_notes :
                       \E d \in DOMAIN COMMON_SCALES[k][2] :
                          (midi_notes[i] - ret.pre[2]) % 12 = COMMON_SCALES[k][2][d]})
        chosen == ret.val[2]
    IN  ret.op = "detect_scale" =>
          /\ COMMON_SCALES[chosen][1] = ret.val[1]
          /\ \A k \in DOMAIN COMMON_SCALES : score(k) <= score(chosen)
          /\ \A k \in 1..(chosen - 1) : score(k) < score(chosen)

\* C23, its case: kafi was chosen although khamaj, later in the catalog, has
\* the same score, and major, earlier, has less.
C23_KafiBeforeKhamaj ==
    /\ ret.op = "detect_scale"
    /\ ret.val[1] = "kafi"
    /\ ret.pre[2] % 12 = 2
    /\ {ret.pre[1][i] % 12 : i \in DOMAIN ret.pre[1]} = {0, 11}

\* C24: after segment, no note's contour holds two consecutive frames whose
\* pitches differ by more than pitch_jump_threshold, whatever the length of
\* the contour.
C24_NoJumpInsideNote ==
    ret.op = "segment" =>
      \A n \in DOMAIN ret.val :
         \A i \in 1..(Len(ret.val[n].pitch_contour) - 1) :
            Abs(ret.val[n].pitch_contour[i + 1].midi_pitch
                - ret.val[n].pitch_contour[i].midi_pitch) <= pitch_jump_threshold

\* C25: _convert_to_events gives exactly one event per maximal run of equal
\* consecutive labels, in input order; an event starts at the time of the
\* first frame of its run and ends at the time of the first frame of the next
\* run, and the last event ends at the time of the last frame.
C25_OneEventPerRun ==
    LET predictions == ret.pre[1]
        events == ret.val[1]
        firsts == {i \in DOMAIN predictions :
                     i = 1 \/ predictions[i][2] # predictions[i - 1][2]}
        first(j) == CHOOSE i \in firsts : Cardinality({x \in firsts : x < i}) = j - 1
    IN  ret.op = "convert_to_events" =>
          /\ Len(events) = Cardinality(firsts)
          /\ \A j \in DOMAIN events :
                /\ events[j].chord_label = predictions[first(j)][2]
                /\ events[j].start_time = predictions[first(j)][1]
                /\ events[j].end_time =
                      IF j < Len(events) THEN predictions[first(j + 1)][1]
                      ELSE predictions[Len(predictions)][1]

\* C25, its case: three frames C, C, G at different times gave the events
\* C from the first frame to the third and G from the third to the third.
C25_TwoRuns ==
    /\ ret.op = "convert_to_events"
    /\ Len(ret.pre[1]) = 3
    /\ ret.pre[1][1][2] = "C" /\ ret.pre[1][2][2] = "C" /\ ret.pre[1][3][2] = "G"
    /\ ret.pre[1][1][1] < ret.pre[1][2][1] /\ ret.pre[1][2][1] < ret.pre[1][3][1]
    /\ Len(ret.val[1]) = 2
    /\ ret.val[1][1].end_time = ret.pre[1][3][1]
    /\ ret.val[1][2].start_time = ret.val[1][2].end_time

\* C30: the confidence of every event of _convert_to_events is the confidence
\* of a frame of its own run, so the confidence filter drops an event only
\* when one of its own frames is below the threshold.
C30_ConfidenceOfOwnRun ==
    LET predictions == ret.pre[1]
        threshold == ret.pre[2].filter_low_confidence
        events == ret.val[1]
        firsts == {i \in DOMAIN predictions :
                     i = 1 \/ predictions[i][2] # predictions[i - 1][2]}
        own(j) == {i \in DOMAIN predictions :
                     Cardinality({x \in firsts : x <= i}) = j}
    IN  ret.op = "convert_to_events" =>
          \A j \in DOMAIN events :
             /\ \E i \in own(j) : events[j].confidence = predictions[i][3]
             /\ (\A k \in DOMAIN ret.val[2] : ret.val[2][k] # events[j])
                  => \E i \in own(j) : predictions[i][3] < threshold

\* C26: a submit_job that fails, because the queue is full, the job is
\* already active or the executor refuses after shutdown, leaves the active
\* set and the futures map exactly as they were.
C26_FailedSubmitChangesNothing ==
    (ret.op = "submit" /\ ret.val # "ok") => ret.same

\* C27: whenever a worker executes the task of a job, the job is in the
\* active set; hence at most one task per job id executes at a time, and at
\* most max_concurrent_jobs dispatched tasks are unfinished.
C27_ExecutingIsActive ==
    /\ \A f \in FutIds : OnWorker(f) => futs[f].job \in active_jobs
    /\ \A f, g \in FutIds :
          (OnWorker(f) /\ OnWorker(g) /\ futs[f].job = futs[g].job) => f = g
    /\ Cardinality({f \in FutIds : ~Finished(futs[f])}) <= max_concurrent_jobs

\* C28: under fair scheduling and with collaborators that return, the record
\* of every job that submit_job has admitted eventually is Completed or
\* Failed, whatever cancel_job, completions and shutdown do in between.
C28_AdmittedJobEnds ==
    \A j \in 1..PipelineJobIds :
        (\E f \in FutIds : futs[f].job = j)
            ~> (jobs[j].status \in {COMPLETED, FAILED})

====
